---------------------------- MODULE Spec2Model ----------------------------
(***************************************************************************)
(* A model of streamlit_app.py (FinalPerfectExtractor): the regular        *)
(* expressions of the extractor evaluated on real strings with Python's    *)
(* backtracking semantics, the field extractors and cleaners built on      *)
(* them, and the per-document loop of process_uploaded_files.              *)
(***************************************************************************)
EXTENDS Integers, Sequences, FiniteSets, TLC

(***************************************************************************)
(* Characters.  A text is a TLA+ string; Ch(s, at) is its at-th character. *)
(***************************************************************************)
Ch(s, at) == SubSeq(s, at, at)

LowerSeq == "abcdefghijklmnopqrstuvwxyz"
UpperSeq == "ABCDEFGHIJKLMNOPQRSTUVWXYZ"
DigitSeq == "0123456789"

CharsOf(s) == { Ch(s, j) : j \in 1..Len(s) }

LowerL == CharsOf(LowerSeq)
UpperL == CharsOf(UpperSeq)
Digits == CharsOf(DigitSeq)
\* \s of Python's re (the ASCII members a TLA+ string can hold)
Space == {" ", "\n", "\t", "\r", "\f"}
\* \w of Python's re, as \b reads it
WordCh == LowerL \cup UpperL \cup Digits \cup {"_"}

ToUpperMap ==
    [a |-> "A", b |-> "B", c |-> "C", d |-> "D", e |-> "E", f |-> "F", g |-> "G",
     h |-> "H", i |-> "I", j |-> "J", k |-> "K", l |-> "L", m |-> "M", n |-> "N",
     o |-> "O", p |-> "P", q |-> "Q", r |-> "R", s |-> "S", t |-> "T", u |-> "U",
     v |-> "V", w |-> "W", x |-> "X", y |-> "Y", z |-> "Z"]
ToLowerMap ==
    [A |-> "a", B |-> "b", C |-> "c", D |-> "d", E |-> "e", F |-> "f", G |-> "g",
     H |-> "h", I |-> "i", J |-> "j", K |-> "k", L |-> "l", M |-> "m", N |-> "n",
     O |-> "o", P |-> "p", Q |-> "q", R |-> "r", S |-> "s", T |-> "t", U |-> "u",
     V |-> "v", W |-> "w", X |-> "x", Y |-> "y", Z |-> "z"]

\* str.upper() on one character
ToUpper(c) == IF c \in LowerL THEN ToUpperMap[c] ELSE c
ToLower(c) == IF c \in UpperL THEN ToLowerMap[c] ELSE c

Min(S) == CHOOSE x \in S : \A y \in S : x <= y
Max(S) == CHOOSE x \in S : \A y \in S : x >= y

RECURSIVE Upper(_)
\* str.upper(), one half of the string after the other
Upper(s) ==
    IF Len(s) = 0 THEN ""
    ELSE IF Len(s) = 1 THEN ToUpper(s)
    ELSE Upper(SubSeq(s, 1, Len(s) \div 2)) \o Upper(SubSeq(s, Len(s) \div 2 + 1, Len(s)))

(***************************************************************************)
(* Regular expressions.  A pattern is [els, g]: els the sequence of its    *)
(* elements, g = <<first, last>> the elements capture group 1 spans        *)
(* (<<0, 0>> for a pattern without a group).  The flags of the call,       *)
(* [I, S] for re.IGNORECASE and re.DOTALL, are an argument of the matcher. *)
(***************************************************************************)
Lit(str) == [t |-> "lit", s |-> str]
\* a character class repeated lo..hi times (hi = -1: unbounded), greedy or lazy
Rep(S, lo, hi) == [t |-> "set", s |-> S, neg |-> FALSE, lo |-> lo, hi |-> hi, lazy |-> FALSE, dot |-> FALSE]
NotRep(S, lo, hi) == [t |-> "set", s |-> S, neg |-> TRUE, lo |-> lo, hi |-> hi, lazy |-> FALSE, dot |-> FALSE]
\* "." repeated: any character but a newline, any character under re.DOTALL
DotRep(lo, hi) == [t |-> "set", s |-> {"\n"}, neg |-> TRUE, lo |-> lo, hi |-> hi, lazy |-> FALSE, dot |-> TRUE]
Lazy(e) == [e EXCEPT !.lazy = TRUE]
One(S) == Rep(S, 1, 1)
Opt(S) == Rep(S, 0, 1)
Star(S) == Rep(S, 0, -1)
Plus(S) == Rep(S, 1, -1)
\* [\s\S]
AnyCh == NotRep({}, 1, 1)
WB == [t |-> "wb"]
Bos == [t |-> "bos"]
Eos == [t |-> "eos"]
\* (a|b|...), each alternative a sequence of elements
Alt(alts) == [t |-> "alt", alts |-> alts]
\* (?=a|b|...) and (?!a|b|...)
Ahead(alts) == [t |-> "la", neg |-> FALSE, alts |-> alts]
NotAhead(alts) == [t |-> "la", neg |-> TRUE, alts |-> alts]
Pat(els, g) == [els |-> els, g |-> g]

Flags(ignorecase, dotall) == [I |-> ignorecase, S |-> dotall]

\* whether the class e, under the flags fl, holds the character c
ClassHit(c, e, fl) ==
    \/ c \in e.s
    \/ fl.I /\ (ToUpper(c) \in e.s \/ ToLower(c) \in e.s)

InClass(c, e, fl) == IF e.dot /\ fl.S THEN TRUE ELSE ClassHit(c, e, fl) # e.neg

\* whether the literal l stands at position at of s
LitAt(s, at, l, fl) ==
    /\ at + Len(l) - 1 <= Len(s)
    /\ \A j \in 1..Len(l) :
         \/ Ch(s, at + j - 1) = Ch(l, j)
         \/ fl.I /\ ToUpper(Ch(s, at + j - 1)) = ToUpper(Ch(l, j))

IsWord(s, at) == at >= 1 /\ at <= Len(s) /\ Ch(s, at) \in WordCh
\* \b at the position before character at
AtWB(s, at) == IsWord(s, at - 1) # IsWord(s, at)

\* the most characters a repetition of e can take at position at, by its bound
MostAt(s, at, e) ==
    IF e.hi >= 0 /\ e.hi < Len(s) - at + 1 THEN e.hi ELSE Len(s) - at + 1

\* how many characters from position at on the class e takes at most: the one
\* count n with n characters of the class, the next one not of it or past the bound
RunLen(s, at, e, fl) ==
    CHOOSE n \in 0..MostAt(s, at, e) :
      /\ \A j \in 0..(n - 1) : InClass(Ch(s, at + j), e, fl)
      /\ n = MostAt(s, at, e) \/ ~InClass(Ch(s, at + n), e, fl)

\* of the attempts <<n, match>>, the match of the least n (of the greatest n, if
\* ~least) among those that matched, or <<>> when none did
Settled(found, least) ==
    IF \A f \in found : f[2] = <<>> THEN <<>>
    ELSE (CHOOSE f \in found :
            /\ f[2] # <<>>
            /\ \A g \in found : g[2] # <<>> => IF least THEN f[1] <= g[1] ELSE f[1] >= g[1])[2]

\* the positions of a match that goes on with the match r
Before(at, r) == IF r = <<>> THEN <<>> ELSE <<at>> \o r

\* the positions of a match through an alternative of Len(r) - n elements, the
\* alternative's own element positions left out
AltMatch(at, r, n) == IF r = <<>> THEN <<>> ELSE <<at>> \o SubSeq(r, Len(r) - n + 1, Len(r))

RECURSIVE M(_, _, _, _, _), Counts(_, _, _, _)
(***************************************************************************)
(* M(els, n0, s, at, fl): the first match, in the order a backtracking     *)
(* matcher tries them, of elements n0.. of els at position at of s: the    *)
(* positions before each of these elements followed by the end of the      *)
(* match, or <<>> when there is none.  A repeated class takes the greatest *)
(* count that lets the rest of the pattern match, a lazy one the least; an *)
(* alternation takes the first alternative that does.                      *)
(***************************************************************************)
M(els, n0, s, at, fl) ==
    IF n0 > Len(els) THEN <<at>>
    ELSE IF els[n0].t = "alt"
    THEN AltMatch(at,
                  Settled({ <<j, M(els[n0].alts[j] \o SubSeq(els, n0 + 1, Len(els)), 1, s, at, fl)>> :
                              j \in 1..Len(els[n0].alts) }, TRUE),
                  Len(els) - n0 + 1)
    ELSE Before(at,
                Settled({ <<c, M(els, n0 + 1, s, at + c, fl)>> : c \in Counts(els[n0], s, at, fl) },
                        els[n0].t = "set" /\ els[n0].lazy))

\* the counts of characters the element e can take at position at
Counts(e, s, at, fl) ==
    CASE e.t = "lit" -> IF LitAt(s, at, e.s, fl) THEN {Len(e.s)} ELSE {}
      [] e.t = "set" -> e.lo..RunLen(s, at, e, fl)
      [] e.t = "wb" -> IF AtWB(s, at) THEN {0} ELSE {}
      [] e.t = "bos" -> IF at = 1 THEN {0} ELSE {}
      [] e.t = "eos" -> IF at = Len(s) + 1 \/ (at = Len(s) /\ Ch(s, at) = "\n") THEN {0} ELSE {}
      [] e.t = "la" -> IF (\E j \in 1..Len(e.alts) : M(e.alts[j], 1, s, at, fl) # <<>>) # e.neg
                       THEN {0} ELSE {}

\* re.search from position at on: the leftmost match's positions, or <<>>
SearchFrom(p, s, fl, at) ==
    Settled({ <<j, M(p.els, 1, s, j, fl)>> : j \in at..(Len(s) + 1) }, TRUE)

\* re.search(pattern, text, flags)
re_search(p, s, fl) == SearchFrom(p, s, fl, 1)

MStart(b) == b[1]
MEnd(b) == b[Len(b)]
\* match.group(0)
Group0(s, b) == SubSeq(s, MStart(b), MEnd(b) - 1)
HasGroup1(p) == p.g[1] > 0
\* match.group(1), for a pattern that has the group
Group1(p, s, b) == SubSeq(s, b[p.g[1]], b[p.g[2] + 1] - 1)

\* where the scan goes on after the match b: past it, one further after an empty match
ScanAfter(b) == IF MEnd(b) > MStart(b) THEN MEnd(b) ELSE MEnd(b) + 1

RECURSIVE FindallFrom(_, _, _, _), FindallAt(_, _, _, _)
\* the matches from the match b on
FindallAt(p, s, fl, b) ==
    IF b = <<>> THEN <<>>
    ELSE <<(IF HasGroup1(p) THEN Group1(p, s, b) ELSE Group0(s, b))>>
         \o FindallFrom(p, s, fl, ScanAfter(b))

FindallFrom(p, s, fl, at) == FindallAt(p, s, fl, SearchFrom(p, s, fl, at))

\* re.findall(pattern, text, flags): group 1 of every non-overlapping match
re_findall(p, s, fl) == FindallFrom(p, s, fl, 1)

RECURSIVE SubFrom(_, _, _, _, _), SubAt(_, _, _, _, _, _)
\* the text from position at on with the match b and the later ones replaced
SubAt(p, repl, s, fl, at, b) ==
    IF b = <<>> THEN SubSeq(s, at, Len(s))
    ELSE SubSeq(s, at, MStart(b) - 1) \o repl \o SubSeq(s, MEnd(b), ScanAfter(b) - 1)
         \o SubFrom(p, repl, s, fl, ScanAfter(b))

SubFrom(p, repl, s, fl, at) == SubAt(p, repl, s, fl, at, SearchFrom(p, s, fl, at))

\* re.sub(pattern, repl, text, flags=flags), repl a plain string
re_sub(p, repl, s, fl) == SubFrom(p, repl, s, fl, 1)

\* the text between the first and the last of the kept positions
Between(s, kept) == IF kept = {} THEN "" ELSE SubSeq(s, Min(kept), Max(kept))

\* str.strip(): from the first to the last character that is no whitespace
Strip(s) == Between(s, { j \in 1..Len(s) : Ch(s, j) \notin Space })

(***************************************************************************)
(* The pattern tables of FinalPerfectExtractor.                            *)
(***************************************************************************)
NoGroup == <<0, 0>>
IS == Flags(TRUE, TRUE)      \* re.IGNORECASE | re.DOTALL
IOnly == Flags(TRUE, FALSE)  \* re.IGNORECASE
NoFlags == Flags(FALSE, FALSE)

field_names == <<"Order Number", "Order Date", "Invoice Number", "Invoice Details",
                 "Customer Address", "Description", "Total Amount">>

\* self.extraction_patterns[field_name], [] for a name that is no key
extraction_patterns(field_name) ==
    CASE field_name = "Order Number" -> <<
           \* Order Number:\s*([\d-]+)
           Pat(<<Lit("Order Number:"), Star(Space), Plus(Digits \cup {"-"})>>, <<3, 3>>),
           \* Order.*?([\d]{3}-[\d]{10}-[\d]{7})
           Pat(<<Lit("Order"), Lazy(DotRep(0, -1)), Rep(Digits, 3, 3), Lit("-"),
                 Rep(Digits, 10, 10), Lit("-"), Rep(Digits, 7, 7)>>, <<3, 7>>) >>
      [] field_name = "Order Date" -> <<
           \* Order Date:\s*([\d./]+)
           Pat(<<Lit("Order Date:"), Star(Space), Plus(Digits \cup {".", "/"})>>, <<3, 3>>),
           \* ([\d]{2}\.[\d]{2}\.[\d]{4})
           Pat(<<Rep(Digits, 2, 2), Lit("."), Rep(Digits, 2, 2), Lit("."), Rep(Digits, 4, 4)>>, <<1, 5>>) >>
      [] field_name = "Invoice Number" -> <<
           \* Invoice Number\s*:\s*([A-Z]+-[\d]+)
           Pat(<<Lit("Invoice Number"), Star(Space), Lit(":"), Star(Space),
                 Plus(UpperL), Lit("-"), Plus(Digits)>>, <<5, 7>>),
           \* ([A-Z]{3,4}-[\d]+)
           Pat(<<Rep(UpperL, 3, 4), Lit("-"), Plus(Digits)>>, <<1, 3>>),
           \* \b(BLX1-\d+)\b
           Pat(<<WB, Lit("BLX1-"), Plus(Digits), WB>>, <<2, 3>>),
           \* \b(IN-\d+)\b
           Pat(<<WB, Lit("IN-"), Plus(Digits), WB>>, <<2, 3>>) >>
      [] field_name = "Invoice Details" -> <<
           \* Invoice Details\s*:\s*([A-Z]+-[A-Z]+-[\d]+-[\d]+)
           Pat(<<Lit("Invoice Details"), Star(Space), Lit(":"), Star(Space),
                 Plus(UpperL), Lit("-"), Plus(UpperL), Lit("-"), Plus(Digits), Lit("-"),
                 Plus(Digits)>>, <<5, 11>>),
           \* (UP-[A-Z]+-[\d-]+)
           Pat(<<Lit("UP-"), Plus(UpperL), Lit("-"), Plus(Digits \cup {"-"})>>, <<1, 4>>),
           \* (KA-[A-Z]+-[\d-]+)
           Pat(<<Lit("KA-"), Plus(UpperL), Lit("-"), Plus(Digits \cup {"-"})>>, <<1, 4>>),
           \* \bUP-143350511-\d+\b      (no capture group)
           Pat(<<WB, Lit("UP-143350511-"), Plus(Digits), WB>>, NoGroup),
           \* \bKA-BLX1-[\d-]+\b        (no capture group)
           Pat(<<WB, Lit("KA-BLX1-"), Plus(Digits \cup {"-"}), WB>>, NoGroup) >>
      [] field_name = "Customer Address" -> <<
           \* Shipping Address[\s:]*([\s\S]+?)(?=\nState/UT Code)
           Pat(<<Lit("Shipping Address"), Star(Space \cup {":"}), Lazy(NotRep({}, 1, -1)),
                 Ahead(<< <<Lit("\nState/UT Code")>> >>)>>, <<3, 3>>),
           \* Shipping Address[\s:]*([\s\S]+?)(?=State/UT|Place of)
           Pat(<<Lit("Shipping Address"), Star(Space \cup {":"}), Lazy(NotRep({}, 1, -1)),
                 Ahead(<< <<Lit("State/UT")>>, <<Lit("Place of")>> >>)>>, <<3, 3>>) >>
      [] field_name = "Total Amount" -> <<
           \* Invoice Value[:\s]*₹?\s*([\d,]+\.00)
           Pat(<<Lit("Invoice Value"), Star({":"} \cup Space), Opt({"₹"}), Star(Space),
                 Plus(Digits \cup {","}), Lit(".00")>>, <<5, 6>>) >>
      [] OTHER -> <<>>

\* the fallback rule of 'Invoice Details': \b(UP-143350511-\d+|KA-BLX1-[\d-]+)\b
invoice_details_fallback ==
    Pat(<<WB, Alt(<< <<Lit("UP-143350511-"), Plus(Digits)>>,
                     <<Lit("KA-BLX1-"), Plus(Digits \cup {"-"})>> >>), WB>>, <<2, 2>>)

TaxWords == << <<Lit("CGST")>>, <<Lit("SGST")>>, <<Lit("IGST")>>, <<Lit("Tax")>> >>

\* the fallback rules of 'Total Amount'
patterns_strict == <<
    \* Invoice Value[:\s]*₹?\s*([\d,]+\.00)
    Pat(<<Lit("Invoice Value"), Star({":"} \cup Space), Opt({"₹"}), Star(Space),
          Plus(Digits \cup {","}), Lit(".00")>>, <<5, 6>>),
    \* ₹\s*([\d,]{4,}\.00)(?![^\n]*(?:CGST|SGST|IGST|Tax))
    Pat(<<Lit("₹"), Star(Space), Rep(Digits \cup {","}, 4, -1), Lit(".00"),
          NotAhead(<< <<NotRep({"\n"}, 0, -1), Alt(TaxWords)>> >>)>>, <<3, 4>>) >>

description_patterns == <<
    \* \d+\s+(BLUEWUD[\s\S]+?)(?=\s*₹|\s*HSN|\s*\d+%)
    Pat(<<Plus(Digits), Plus(Space), Lit("BLUEWUD"), Lazy(NotRep({}, 1, -1)),
          Ahead(<< <<Star(Space), Lit("₹")>>, <<Star(Space), Lit("HSN")>>,
                   <<Star(Space), Plus(Digits), Lit("%")>> >>)>>, <<3, 4>>),
    \* (BLUEWUD[^\n]+?)(?=\s*[A-Z][\d]|\s*HSN|\s*₹)
    Pat(<<Lit("BLUEWUD"), Lazy(NotRep({"\n"}, 1, -1)),
          Ahead(<< <<Star(Space), One(UpperL), One(Digits)>>, <<Star(Space), Lit("HSN")>>,
                   <<Star(Space), Lit("₹")>> >>)>>, <<1, 2>>) >>

DescriptionAmount1 == <<Lit("Description"), Star(Space), Lit("Amount"), Star(Space), Lit("1")>>

unwanted_patterns == <<
    \* HSN[\s:]*[\d]+
    Pat(<<Lit("HSN"), Star(Space \cup {":"}), Plus(Digits)>>, NoGroup),
    \* ₹[\d,]+\.?\d*
    Pat(<<Lit("₹"), Plus(Digits \cup {","}), Opt({"."}), Star(Digits)>>, NoGroup),
    \* \d+%\s*(CGST|SGST|IGST)
    Pat(<<Plus(Digits), Lit("%"), Star(Space),
          Alt(<< <<Lit("CGST")>>, <<Lit("SGST")>>, <<Lit("IGST")>> >>)>>, <<4, 4>>),
    \* Sl\.?\s*No\.?
    Pat(<<Lit("Sl"), Opt({"."}), Star(Space), Lit("No"), Opt({"."})>>, NoGroup),
    \* Unit\s*Price
    Pat(<<Lit("Unit"), Star(Space), Lit("Price")>>, NoGroup),
    \* Qty\s*Net
    Pat(<<Lit("Qty"), Star(Space), Lit("Net")>>, NoGroup),
    \* Tax\s*Rate
    Pat(<<Lit("Tax"), Star(Space), Lit("Rate")>>, NoGroup),
    \* Tax\s*Type
    Pat(<<Lit("Tax"), Star(Space), Lit("Type")>>, NoGroup),
    \* Tax\s*Amount
    Pat(<<Lit("Tax"), Star(Space), Lit("Amount")>>, NoGroup),
    \* Total\s*Amount
    Pat(<<Lit("Total"), Star(Space), Lit("Amount")>>, NoGroup),
    \* BLUEWUD CONCEPTS PRIVATE LIMITED[:\s\S]*?Description\s*Amount\s*1
    Pat(<<Lit("BLUEWUD CONCEPTS PRIVATE LIMITED"), Lazy(NotRep({}, 0, -1))>>
        \o DescriptionAmount1, NoGroup),
    \* Authorized Signatory[\s\S]*?Description\s*Amount\s*1
    Pat(<<Lit("Authorized Signatory"), Lazy(NotRep({}, 0, -1))>> \o DescriptionAmount1, NoGroup),
    \* Order Number:.*?Invoice Date\s*:\s*[\d./]+\s*Description\s*Amount\s*1
    Pat(<<Lit("Order Number:"), Lazy(DotRep(0, -1)), Lit("Invoice Date"), Star(Space), Lit(":"),
          Star(Space), Plus(Digits \cup {".", "/"}), Star(Space)>> \o DescriptionAmount1, NoGroup),
    \* BLUEWUD CONCEPTS PRIVATE LIMITED[:\s\S]*?Order Number:.*?Description\s*Amount\s*1
    Pat(<<Lit("BLUEWUD CONCEPTS PRIVATE LIMITED"), Lazy(NotRep({}, 0, -1)), Lit("Order Number:"),
          Lazy(DotRep(0, -1))>> \o DescriptionAmount1, NoGroup) >>

\* the separator characters of [\s\-|,.:;]
Separators == Space \cup {"-", "|", ",", ".", ":", ";"}

(***************************************************************************)
(* The cleaners and the field extractors.                                  *)
(***************************************************************************)
\* clean_address(address)
clean_address(address) ==
    Strip(re_sub(Pat(<<Lit("Place of"), DotRep(0, -1)>>, NoGroup), "",
            re_sub(Pat(<<Lit("State/UT Code"), DotRep(0, -1)>>, NoGroup), "",
              re_sub(Pat(<<Plus({"\n"})>>, NoGroup), " ",
                re_sub(Pat(<<Plus(Space)>>, NoGroup), " ", address, NoFlags),
                NoFlags),
              NoFlags),
            NoFlags))

RECURSIVE RemoveUnwanted(_, _)
\* the loop over unwanted_patterns, from pattern n0 on (no pattern matches in an
\* empty description, which the passes that are left return as it is)
RemoveUnwanted(description, n0) ==
    IF n0 > Len(unwanted_patterns) \/ description = "" THEN description
    ELSE RemoveUnwanted(re_sub(unwanted_patterns[n0], "", description, IOnly), n0 + 1)

\* re.sub(r'\s+', ' ', description).strip()
OneSpaced(description) ==
    Strip(re_sub(Pat(<<Plus(Space)>>, NoGroup), " ", description, NoFlags))

\* clean_description(description)
clean_description(description) ==
    IF description = "" THEN ""
    ELSE re_sub(Pat(<<Plus(Separators), Eos>>, NoGroup), "",
           re_sub(Pat(<<Bos, Plus(Separators)>>, NoGroup), "",
             OneSpaced(RemoveUnwanted(OneSpaced(description), 1)),
             NoFlags),
           NoFlags)

RECURSIVE MaxByLen(_, _, _)
\* max(matches, key=len): the first of the longest
MaxByLen(matches, n0, best) ==
    IF n0 > Len(matches) THEN best
    ELSE MaxByLen(matches, n0 + 1, IF Len(matches[n0]) > Len(best) THEN matches[n0] ELSE best)

\* 'BLUEWUD' in s
HasMarker(s) == \E at \in 1..Len(s) : LitAt(s, at, "BLUEWUD", NoFlags)

\* the minimum length a cleaned description must exceed
MinDescriptionLen == 20

\* an acceptance test that leaves the length out
AcceptableByMarker(cleaned_description) == HasMarker(Upper(cleaned_description))

\* the acceptance test of a cleaned description
Acceptable(cleaned_description) ==
    Len(cleaned_description) > MinDescriptionLen /\ HasMarker(Upper(cleaned_description))

\* the cleaned longest of the matches, "" when there are none
CleanedLongest(matches) ==
    IF matches = <<>> THEN "" ELSE clean_description(MaxByLen(matches, 2, matches[1]))

\* one pass of the loop over description_patterns: the cleaned longest match,
\* "" when the pattern matches nowhere
Candidate(txt, n0) == CleanedLongest(re_findall(description_patterns[n0], txt, IS))

RECURSIVE DescriptionFrom(_, _), DescriptionPass(_, _, _)
\* the end of pass n0: return the candidate if it is acceptable, else go on
DescriptionPass(txt, n0, cleaned_description) ==
    IF Acceptable(cleaned_description) THEN cleaned_description
    ELSE DescriptionFrom(txt, n0 + 1)

\* the loop over description_patterns, from pattern n0 on
DescriptionFrom(txt, n0) ==
    IF n0 > Len(description_patterns) THEN ""
    ELSE DescriptionPass(txt, n0, Candidate(txt, n0))

\* extract_description_from_table(text)
extract_description_from_table(txt) == DescriptionFrom(txt, 1)

EndsWith(s, suffix) ==
    Len(s) >= Len(suffix) /\ SubSeq(s, Len(s) - Len(suffix) + 1, Len(s)) = suffix

(***************************************************************************)
(* One pass of the loop over a field's rules: what the body of the try     *)
(* does with one pattern.  kind is "return" (the function returns value),  *)
(* "next" (no match, or a match the field does not accept) or "raise"      *)
(* (match.group(1) on a pattern without a group raises IndexError).        *)
(***************************************************************************)
Outcome(kind, value) == [kind |-> kind, value |-> value]

\* what the body does with value, the stripped and cleaned group 1
Accept(field_name, value) ==
    IF field_name = "Total Amount"
    THEN IF EndsWith(value, ".00") THEN Outcome("return", "₹" \o value) ELSE Outcome("next", "")
    ELSE IF value # "" THEN Outcome("return", value) ELSE Outcome("next", "")

\* value = match.group(1).strip(), cleaned for 'Customer Address'
Cleaned(field_name, value) ==
    IF field_name = "Customer Address" THEN clean_address(value) ELSE value

\* the body from "if match:" on, b the match
OnMatch(txt, field_name, p, b) ==
    IF b = <<>> THEN Outcome("next", "")
    ELSE IF ~HasGroup1(p) THEN Outcome("raise", "")
    ELSE Accept(field_name, Cleaned(field_name, Strip(Group1(p, txt, b))))

RuleBody(txt, field_name, p) == OnMatch(txt, field_name, p, re_search(p, txt, IS))

\* a loop without the except clause: the exception leaves the function
Propagate(outcome) == outcome

\* the except clause of the loop: the exception is dropped and the loop goes on
ExceptClause(outcome) == IF outcome.kind = "raise" THEN Outcome("next", "") ELSE outcome

\* one pass of the loop, its try and except together
TryRule(txt, field_name, p) == ExceptClause(RuleBody(txt, field_name, p))

RECURSIVE DigitsValue(_, _)
\* the number a string of digits writes, acc the digits read so far
DigitsValue(s, acc) ==
    IF s = "" THEN acc
    ELSE DigitsValue(SubSeq(s, 2, Len(s)),
                     10 * acc + (CHOOSE d \in 0..9 : Ch(DigitSeq, d + 1) = Ch(s, 1)))

RECURSIVE RemoveCommas(_)
\* x.replace(',', '')
RemoveCommas(x) ==
    IF x = "" THEN ""
    ELSE (IF Ch(x, 1) = "," THEN "" ELSE Ch(x, 1)) \o RemoveCommas(SubSeq(x, 2, Len(x)))

\* the number a string of digits ending in ".00" writes
WholePart(y) == DigitsValue(SubSeq(y, 1, Len(y) - 3), 0)

\* float(x.replace(',', '')) of a string of digits and commas ending in ".00"
FloatOf(x) == WholePart(RemoveCommas(x))

\* a selection that keeps the first match whatever the values are
FirstOfMatches(matches, n0, best) == best

RECURSIVE MaxByFloat(_, _, _)
\* max(matches, key=lambda x: float(x.replace(',', ''))): the first of the greatest
MaxByFloat(matches, n0, best) ==
    IF n0 > Len(matches) THEN best
    ELSE MaxByFloat(matches, n0 + 1,
                    IF FloatOf(matches[n0]) > FloatOf(best) THEN matches[n0] ELSE best)

RECURSIVE StrictFrom(_, _), StrictPass(_, _, _)
\* the end of pass n0: return the greatest match if there is one, else go on
StrictPass(txt, n0, matches) ==
    IF matches # <<>> THEN "₹" \o MaxByFloat(matches, 2, matches[1])
    ELSE StrictFrom(txt, n0 + 1)

\* the loop over patterns_strict, from pattern n0 on
StrictFrom(txt, n0) ==
    IF n0 > Len(patterns_strict) THEN ""
    ELSE StrictPass(txt, n0, re_findall(patterns_strict[n0], txt, IOnly))

\* match.group(1) if match else ""
Group1OrEmpty(p, txt, b) == IF b # <<>> THEN Group1(p, txt, b) ELSE ""

\* a fallback stage that knows 'Total Amount' only
FallbacksOfAmountOnly(txt, field_name) ==
    IF field_name = "Total Amount" THEN StrictFrom(txt, 1) ELSE ""

\* the fallback stage of extract_field, reached when no rule returned
Fallbacks(txt, field_name) ==
    CASE field_name = "Invoice Details" ->
           Group1OrEmpty(invoice_details_fallback, txt,
                         re_search(invoice_details_fallback, txt, NoFlags))
      [] field_name = "Total Amount" -> StrictFrom(txt, 1)
      [] OTHER -> ""

RECURSIVE RulesFrom(_, _, _), RulePass(_, _, _, _)
\* the end of pass n0: return the value if the body returned, else go on
RulePass(txt, field_name, n0, outcome) ==
    IF outcome.kind = "return" THEN outcome.value ELSE RulesFrom(txt, field_name, n0 + 1)

\* the loop over the field's rules, from rule n0 on, then the fallback stage
RulesFrom(txt, field_name, n0) ==
    IF n0 > Len(extraction_patterns(field_name)) THEN Fallbacks(txt, field_name)
    ELSE RulePass(txt, field_name, n0,
                  TryRule(txt, field_name, extraction_patterns(field_name)[n0]))

\* extract_field(text, field_name)
extract_field(txt, field_name) ==
    IF field_name = "Description" THEN extract_description_from_table(txt)
    ELSE RulesFrom(txt, field_name, 1)

(***************************************************************************)
(* The inputs.  A page is its text, or a page whose get_text() raises; a   *)
(* document is what the three calls on it do: uploaded_file.read(),        *)
(* fitz.open() and page.get_text() of each page.                           *)
(***************************************************************************)
Page(str) == [ok |-> TRUE, txt |-> str]
BadPage == [ok |-> FALSE, txt |-> ""]
Doc(name, read_ok, open_ok, pages) ==
    [name |-> name, read_ok |-> read_ok, open_ok |-> open_ok, pages |-> pages]

InvoicePage ==
    "Order Number: 123-4567890123-1234567\nInvoice Details : UP-BLX-12-2425\n"
    \o "Shipping Address :\n12 Main St\nState/UT Code: 07\n"
    \o "1 BLUEWUD Premium Office Chair ₹2,500.00\nInvoice Value: ₹2,500.00\n"

Documents == {
    Doc("a.pdf", TRUE, TRUE, <<Page(InvoicePage)>>),
    Doc("b.pdf", FALSE, TRUE, <<>>),
    Doc("c.pdf", TRUE, FALSE, <<>>),
    Doc("d.pdf", TRUE, TRUE, <<Page("Order Date: 12.05.2024"), BadPage>>),
    Doc("e.pdf", TRUE, TRUE, <<Page("  "), Page("\t")>>),
    Doc("f.pdf", TRUE, TRUE, <<Page("scanned page, no text layer")>>),
    Doc("g.pdf", TRUE, TRUE, <<>>),
    Doc("h.pdf", TRUE, TRUE, <<Page("Order Date: 12.05.2024"), Page("IN-77 ₹1,200.00")>>),
    Doc("", TRUE, TRUE, <<Page("no fields here")>>) }

(***************************************************************************)
(* The record of one document.                                             *)
(***************************************************************************)
\* Python's None, and a value that is not None
None == <<>>
Some(v) == <<v>>

RecordKeys == { field_names[n] : n \in 1..Len(field_names) } \cup {"Source File"}

RECURSIVE JoinPages(_, _)
\* full_text after pages n.. of a document whose pages all give their text
JoinPages(pages, n) ==
    IF n > Len(pages) THEN "" ELSE pages[n].txt \o "\n" \o JoinPages(pages, n + 1)

\* the texts extract_text_from_pdf_bytes can return for the documents of the model
DocumentTexts == { JoinPages(d.pages, 1) : d \in Documents }

\* extract_field on each of these texts, computed once
Extracted ==
    { <<t, [n \in 1..Len(field_names) |-> extract_field(t, field_names[n])]>> :
        t \in DocumentTexts }

\* extracted_data[field_name] = self.extract_field(text, field_name), pass n of the loop
FieldValue(txt, n) ==
    IF txt \in DocumentTexts
    THEN (CHOOSE e \in Extracted : e[1] = txt)[2][n]
    ELSE extract_field(txt, field_names[n])

\* the dict built by the loop over field_names, then the 'Source File' entry
BuildRecord(txt, filename) ==
    [key \in RecordKeys |->
        IF key = "Source File" THEN filename
        ELSE FieldValue(txt, CHOOSE n \in 1..Len(field_names) : field_names[n] = key)]

\* a build that tests the text with "if not text:", without the strip
BuildUnlessEmpty(txt, filename) ==
    IF txt = "" THEN None ELSE Some(BuildRecord(txt, filename))

\* extract_invoice_data_from_bytes, from the extracted text on
BuildFromText(txt, filename) ==
    IF Strip(txt) = "" THEN None ELSE Some(BuildRecord(txt, filename))

\* any(str(val).strip() for val in extracted_data.values() if val)
AnyValue(data) == \E key \in DOMAIN data : data[key] # "" /\ Strip(data[key]) # ""

\* the test of the if in process_uploaded_files
CountsAsSuccess(extracted_data) == extracted_data # None /\ AnyValue(extracted_data[1])

\* results.insert(0, extracted_data)
PrependResult(list, item) == <<item>> \o list

\* results.append(extracted_data)
AppendResult(list, item) == Append(list, item)

\* the most documents of one batch
MaxFiles == 3

RECURSIVE SeqsUpTo(_, _)
\* the sequences over S of length at most n
SeqsUpTo(S, n) ==
    IF n = 0 THEN {<<>>}
    ELSE LET shorter == SeqsUpTo(S, n - 1)
         IN  shorter \cup { Append(q, x) : q \in shorter, x \in S }

RECURSIVE TextsOf(_, _)
\* the texts made of at most n chunks of S, one after the other
TextsOf(S, n) ==
    IF n = 0 THEN {""}
    ELSE LET shorter == TextsOf(S, n - 1)
         IN  shorter \cup { t \o c : t \in shorter, c \in S }

(***************************************************************************)
(* State.                                                                  *)
(***************************************************************************)
VARIABLES
    uploaded_files,  \* the argument of process_uploaded_files
    i,               \* the number of the document the loop is at, 0 before the first
    pc,              \* where process_uploaded_files is
    results,         \* the list of records
    result_idx,      \* history: the number of the document each record came from
    successful,
    failed,
    handles,         \* per document, its fitz handle: "none", "open" or "closed"
    page,            \* the page extract_text_from_pdf_bytes is at
    full_text,
    text,            \* what extract_text_from_pdf_bytes returned
    extracted_data,
    call,            \* one call of an extractor on its own: [fn, text, field_name]
    k,               \* the rule or pattern the call's loop is at
    cpc,             \* where the call is
    ret,             \* what the call returned
    log              \* history: the outcome of each pass of the call's loop

bvars == <<uploaded_files, i, pc, results, result_idx, successful, failed, handles, page,
           full_text, text, extracted_data>>
cvars == <<call, k, cpc, ret, log>>
vars == <<uploaded_files, i, pc, results, result_idx, successful, failed, handles, page,
          full_text, text, extracted_data, call, k, cpc, ret, log>>

NoCall == [fn |-> "", text |-> "", field_name |-> ""]

IdleCall == call = NoCall /\ k = 0 /\ cpc = "idle" /\ ret = "" /\ log = <<>>

IdleBatch ==
    /\ uploaded_files = <<>> /\ i = 0 /\ pc = "idle" /\ results = <<>> /\ result_idx = <<>>
    /\ successful = 0 /\ failed = 0 /\ handles = <<>> /\ page = 0 /\ full_text = ""
    /\ text = "" /\ extracted_data = None

(***************************************************************************)
(* process_uploaded_files, with extract_invoice_data_from_bytes and        *)
(* extract_text_from_pdf_bytes in line.                                    *)
(***************************************************************************)
Init ==
    /\ uploaded_files \in SeqsUpTo(Documents, MaxFiles)
    /\ i = 0
    /\ pc = "loop"
    /\ results = <<>>
    /\ result_idx = <<>>
    /\ successful = 0
    /\ failed = 0
    /\ handles = [n \in 1..Len(uploaded_files) |-> "none"]
    /\ page = 0
    /\ full_text = ""
    /\ text = ""
    /\ extracted_data = None
    /\ IdleCall

uploaded_file == uploaded_files[i]

\* for i, uploaded_file in enumerate(uploaded_files): the next document
NextFile ==
    /\ pc = "loop" /\ i < Len(uploaded_files)
    /\ i' = i + 1
    /\ pc' = "read"
    /\ UNCHANGED <<uploaded_files, results, result_idx, successful, failed, handles, page,
                   full_text, text, extracted_data>>
    /\ UNCHANGED cvars

\* the loop is over: return results, successful, failed
Finish ==
    /\ pc = "loop" /\ i = Len(uploaded_files)
    /\ pc' = "done"
    /\ UNCHANGED <<uploaded_files, i, results, result_idx, successful, failed, handles, page,
                   full_text, text, extracted_data>>
    /\ UNCHANGED cvars

\* a loop body whose except clause ends the loop
AbortBatch ==
    /\ failed' = failed + 1
    /\ pc' = "aborted"

\* except Exception as e: of the loop body
OuterExcept ==
    /\ failed' = failed + 1
    /\ pc' = "progress"

\* pdf_bytes = uploaded_file.read()
Read ==
    /\ pc = "read"
    /\ IF uploaded_file.read_ok
       THEN pc' = "open" /\ failed' = failed
       ELSE OuterExcept
    /\ UNCHANGED <<uploaded_files, i, results, result_idx, successful, handles, page,
                   full_text, text, extracted_data>>
    /\ UNCHANGED cvars

\* except Exception as e: of extract_text_from_pdf_bytes: return ""
InnerExcept ==
    /\ text' = ""
    /\ pc' = "build"

\* doc = fitz.open(stream=pdf_bytes, filetype="pdf"); full_text = ""
Open ==
    /\ pc = "open"
    /\ IF uploaded_file.open_ok
       THEN /\ handles' = [handles EXCEPT ![i] = "open"]
            /\ full_text' = ""
            /\ page' = 1
            /\ pc' = "pages"
            /\ text' = text
       ELSE /\ InnerExcept
            /\ UNCHANGED <<handles, full_text, page>>
    /\ UNCHANGED <<uploaded_files, i, results, result_idx, successful, failed, extracted_data>>
    /\ UNCHANGED cvars

\* for page in doc: text = page.get_text(); full_text += text + "\n"
GetText ==
    /\ pc = "pages" /\ page <= Len(uploaded_file.pages)
    /\ IF uploaded_file.pages[page].ok
       THEN /\ full_text' = full_text \o uploaded_file.pages[page].txt \o "\n"
            /\ page' = page + 1
            /\ UNCHANGED <<pc, text>>
       ELSE /\ InnerExcept
            /\ UNCHANGED <<full_text, page>>
    /\ UNCHANGED <<uploaded_files, i, results, result_idx, successful, failed, handles,
                   extracted_data>>
    /\ UNCHANGED cvars

\* doc.close(); return full_text
Close ==
    /\ pc = "pages" /\ page > Len(uploaded_file.pages)
    /\ handles' = [handles EXCEPT ![i] = "closed"]
    /\ text' = full_text
    /\ pc' = "build"
    /\ UNCHANGED <<uploaded_files, i, results, result_idx, successful, failed, page, full_text,
                   extracted_data>>
    /\ UNCHANGED cvars

\* the rest of extract_invoice_data_from_bytes, once the text is there
Build ==
    /\ pc = "build"
    /\ extracted_data' = BuildFromText(text, uploaded_file.name)
    /\ pc' = "classify"
    /\ UNCHANGED <<uploaded_files, i, results, result_idx, successful, failed, handles, page,
                   full_text, text>>
    /\ UNCHANGED cvars

\* if extracted_data and any(...): append and count, else: count as failed
Classify ==
    /\ pc = "classify"
    /\ IF CountsAsSuccess(extracted_data)
       THEN /\ results' = AppendResult(results, extracted_data[1])
            /\ result_idx' = AppendResult(result_idx, i)
            /\ successful' = successful + 1
            /\ failed' = failed
       ELSE /\ failed' = failed + 1
            /\ UNCHANGED <<results, result_idx, successful>>
    /\ pc' = "progress"
    /\ UNCHANGED <<uploaded_files, i, handles, page, full_text, text, extracted_data>>
    /\ UNCHANGED cvars

\* progress_bar.progress((i + 1) / len(uploaded_files))
Progress ==
    /\ pc = "progress"
    /\ pc' = "loop"
    /\ UNCHANGED <<uploaded_files, i, results, result_idx, successful, failed, handles, page,
                   full_text, text, extracted_data>>
    /\ UNCHANGED cvars

Next ==
    \/ NextFile
    \/ Finish
    \/ Read
    \/ Open
    \/ GetText
    \/ Close
    \/ Build
    \/ Classify
    \/ Progress

Spec == Init /\ [][Next]_vars

(***************************************************************************)
(* One call of an extractor on its own, a pass of its loop at a time: the  *)
(* texts are made of a few chunks that hold the shapes the rules look for. *)
(***************************************************************************)
\* the most chunks the text of a call is made of
MaxChunks == 3

AmountChunks ==
    {"Invoice Value: ₹150.00\n", "Invoice Value: 99.50\n", "₹1,200.00\n", "₹12,500.00\n",
     "₹3,000.00 IGST\n", "₹80.00\n"}

DetailsChunks ==
    {"Invoice Details : UP-BLX-12-2425\n", "UP-143350511-12", "KA-BLX1-7-8", "up-143350511-9",
     " ", "x"}

AddressChunks ==
    {"12 Main St", " ", "\n", "State/UT Code: 07", "Place of supply: UP", "place of supply: UP",
     "STATE/UT CODE: 07"}

ShippingChunks ==
    {"Shipping Address :\n", "12 Main St\n", "State/UT Code: 07\n", "Place of supply: UP\n",
     "state/ut code: 07\n"}

DescriptionChunks ==
    {"2 BLUEWUD Office Chair ₹5\n", "BLUEWUD Premium Office Chair", " ₹5\n", "1 ",
     "BLUEWUD CONCEPTS PRIVATE LIMITED Description Amount 1 Premium Office Chairs"}

Call(fn, txt, field_name) == [fn |-> fn, text |-> txt, field_name |-> field_name]

Calls ==
    { Call("extract_field", t, "Total Amount") : t \in TextsOf(AmountChunks, MaxChunks) }
    \cup { Call("extract_field", t, "Invoice Details") : t \in TextsOf(DetailsChunks, MaxChunks) }
    \cup { Call("extract_field", t, "Customer Address") : t \in TextsOf(ShippingChunks, MaxChunks) }
    \cup { Call("extract_field", t, field_names[n]) : t \in DocumentTexts, n \in 1..Len(field_names) }
    \cup { Call("extract_description_from_table", t, "") : t \in TextsOf(DescriptionChunks, MaxChunks) }
    \cup { Call("clean_address", t, "") : t \in TextsOf(AddressChunks, MaxChunks) }

InitCall ==
    /\ IdleBatch
    /\ call \in Calls
    /\ k = 0
    /\ cpc = "start"
    /\ ret = ""
    /\ log = <<>>

\* extract_field: the 'Description' test, else patterns = self.extraction_patterns.get(...)
EnterExtractField ==
    /\ cpc = "start" /\ call.fn = "extract_field"
    /\ cpc' = IF call.field_name = "Description" THEN "description" ELSE "rules"
    /\ k' = 1
    /\ UNCHANGED <<call, ret, log>>
    /\ UNCHANGED bvars

\* extract_description_from_table called on its own
EnterDescription ==
    /\ cpc = "start" /\ call.fn = "extract_description_from_table"
    /\ cpc' = "description"
    /\ k' = 1
    /\ UNCHANGED <<call, ret, log>>
    /\ UNCHANGED bvars

\* clean_address called on its own
CallCleanAddress ==
    /\ cpc = "start" /\ call.fn = "clean_address"
    /\ ret' = clean_address(call.text)
    /\ cpc' = "done"
    /\ UNCHANGED <<call, k, log>>
    /\ UNCHANGED bvars

\* what the loop does after the try and except of one pass: the function returns,
\* the exception leaves the function, or the loop goes on with the next rule
Resume(outcome) ==
    CASE outcome.kind = "return" -> ret' = outcome.value /\ cpc' = "done" /\ k' = k
      [] outcome.kind = "raise" -> cpc' = "raised" /\ UNCHANGED <<ret, k>>
      [] OTHER -> k' = k + 1 /\ UNCHANGED <<ret, cpc>>

\* one pass: the try, whose outcome the log keeps, and the except
Pass(outcome) ==
    /\ log' = Append(log, outcome.kind)
    /\ Resume(ExceptClause(outcome))

\* for pattern in patterns: one pass of the loop
RuleStep ==
    /\ cpc = "rules" /\ k <= Len(extraction_patterns(call.field_name))
    /\ Pass(RuleBody(call.text, call.field_name, extraction_patterns(call.field_name)[k]))
    /\ UNCHANGED call
    /\ UNCHANGED bvars

\* the loop is over without a return: the fallback stage, and the final return ""
RulesEnd ==
    /\ cpc = "rules" /\ k > Len(extraction_patterns(call.field_name))
    /\ log' = Append(log, "fallback")
    /\ ret' = Fallbacks(call.text, call.field_name)
    /\ cpc' = "done"
    /\ UNCHANGED <<call, k>>
    /\ UNCHANGED bvars

\* what pass k of the loop over description_patterns did
PassKind(matches, cleaned_description) ==
    IF matches = <<>> THEN "nomatch"
    ELSE IF Acceptable(cleaned_description) THEN "accepted" ELSE "rejected"

\* the end of the pass: return the acceptable candidate, else the next pattern
AfterCandidate(matches, cleaned_description) ==
    /\ log' = Append(log, PassKind(matches, cleaned_description))
    /\ IF Acceptable(cleaned_description)
       THEN ret' = cleaned_description /\ cpc' = "done" /\ k' = k
       ELSE k' = k + 1 /\ UNCHANGED <<ret, cpc>>

\* the pass from "if matches:" on
AfterFindall(matches) == AfterCandidate(matches, CleanedLongest(matches))

\* for pattern in description_patterns: one pass
DescStep ==
    /\ cpc = "description" /\ k <= Len(description_patterns)
    /\ AfterFindall(re_findall(description_patterns[k], call.text, IS))
    /\ UNCHANGED call
    /\ UNCHANGED bvars

\* the loop is over: return ""
DescEnd ==
    /\ cpc = "description" /\ k > Len(description_patterns)
    /\ ret' = ""
    /\ cpc' = "done"
    /\ UNCHANGED <<call, k, log>>
    /\ UNCHANGED bvars

NextCall ==
    \/ EnterExtractField
    \/ EnterDescription
    \/ CallCleanAddress
    \/ RuleStep
    \/ RulesEnd
    \/ DescStep
    \/ DescEnd

SpecCall == InitCall /\ [][NextCall]_vars

(***************************************************************************)
(* Properties of process_uploaded_files (under Spec).                      *)
(***************************************************************************)
\* the documents the loop has classified so far
Classified == IF pc \in {"progress", "loop", "done"} THEN i ELSE i - 1

\* C1 - batch isolation: whatever the documents do (unreadable, raising while they
\* are opened or read, yielding nothing), every document is classified exactly
\* once, the loop goes on to the documents after it, and when the function
\* returns successful + failed is the number of documents.
C1_BatchIsolation ==
    /\ successful + failed = Classified
    /\ pc = "done" => i = Len(uploaded_files) /\ successful + failed = Len(uploaded_files)
    /\ pc # "done" => ENABLED Next

\* a batch whose first document cannot be read and that still ends with a
\* later document counted as successful
C1_Witness ==
    /\ pc = "done"
    /\ Len(uploaded_files) >= 2
    /\ ~uploaded_files[1].read_ok
    /\ successful >= 1
    /\ failed >= 1

\* C2 - empty-record classification: a record whose seven extracted fields are all
\* empty is counted as failed and never appended, whatever the file name is; so
\* every record of the results has a non-empty field among the seven.
C2_EmptyRecordIsFailure ==
    \A n \in 1..Len(results) :
        \E f \in 1..Len(field_names) : results[n][field_names[f]] # ""

\* C3 - input order is preserved: at every point the results are the records of
\* successfully classified documents, one each, in the order of the input.
C3_InputOrderPreserved ==
    /\ Len(results) = successful
    /\ Len(result_idx) = Len(results)
    /\ \A n \in 1..Len(results) :
         /\ result_idx[n] \in 1..i
         /\ results[n] = BuildRecord(JoinPages(uploaded_files[result_idx[n]].pages, 1),
                                     uploaded_files[result_idx[n]].name)
    /\ \A m, n \in 1..Len(result_idx) : m < n => result_idx[m] < result_idx[n]

\* two records in the results, of the first and the third document, the second
\* document having failed in between
C3_Witness ==
    /\ Len(results) = 2
    /\ result_idx = <<1, 3>>
    /\ failed >= 1

\* a text that is empty or made of whitespace only
OnlyWhitespace(txt) == \A j \in 1..Len(txt) : Ch(txt, j) \in Space

\* C5 - record completeness: extract_invoice_data_from_bytes returns None exactly
\* when the extracted text is empty or whitespace only; else it returns a record
\* whose keys are the seven fields and 'Source File', no fewer and no more, each
\* value a string.
C5_RecordCompleteness ==
    pc = "classify" =>
        /\ (extracted_data = None) <=> OnlyWhitespace(text)
        /\ extracted_data # None =>
             /\ DOMAIN extracted_data[1] =
                  {"Order Number", "Order Date", "Invoice Number", "Invoice Details",
                   "Customer Address", "Description", "Total Amount", "Source File"}
             /\ \A key \in DOMAIN extracted_data[1] : extracted_data[1][key] \in STRING

\* a record that has a field that was found and a field that was not
C5_Witness ==
    /\ pc = "classify"
    /\ extracted_data # None
    /\ extracted_data[1]["Order Date"] # ""
    /\ extracted_data[1]["Description"] = ""

\* C9 - scoped document handle: once extract_text_from_pdf_bytes has returned for
\* a document, on whatever path, the handle it opened is not open any more.
C9_HandleReleased ==
    \A n \in 1..Len(handles) :
        (n < i \/ (n = i /\ pc \in {"build", "classify", "progress", "loop", "done"}))
            => handles[n] # "open"

(***************************************************************************)
(* Properties of the extractors (under SpecCall).                          *)
(***************************************************************************)
InExtractField(field_name) ==
    cpc = "done" /\ call.fn = "extract_field" /\ call.field_name = field_name

\* the characters of an amount before its decimal point
DigitsOrComma == Digits \cup {","}

\* the position after the digits and commas that start at position a of s
RunEnd(s, a) ==
    a + Cardinality({ n \in 1..(Len(s) - a + 1) :
                        \A j \in a..(a + n - 1) : Ch(s, j) \in DigitsOrComma })

\* an amount ending in ".00" starts at position a of s
AmountAt(s, a) == Ch(s, a) \in DigitsOrComma /\ LitAt(s, RunEnd(s, a), ".00", NoFlags)

\* the amount that starts at position a of s, ".00" included
AmountFrom(s, a) == SubSeq(s, a, RunEnd(s, a) + 2)

\* the amount at a is introduced by an 'Invoice Value' label that starts at l:
\* the label, colons and whitespace, at most one currency glyph, whitespace
LabelIntro(s, l, a) ==
    /\ LitAt(s, l, "Invoice Value", IOnly)
    /\ \E q \in (l + 13)..a :
         /\ \A j \in (l + 13)..(q - 1) : Ch(s, j) \in Space \cup {":"}
         /\ \/ q = a
            \/ Ch(s, q) = "₹" /\ \A j \in (q + 1)..(a - 1) : Ch(s, j) \in Space

\* the labelled amounts of s, each with the position of its label
Labelled(s) ==
    { x \in { l \in 1..Len(s) : LitAt(s, l, "Invoice Value", IOnly) }
              \X { a \in 1..Len(s) : AmountAt(s, a) } :
        x[1] < x[2] /\ LabelIntro(s, x[1], x[2]) }

\* the amount at a is introduced by the currency glyph and whitespace only
GlyphIntro(s, a) ==
    \E g \in 1..(a - 1) :
        Ch(s, g) = "₹" /\ \A j \in (g + 1)..(a - 1) : Ch(s, j) \in Space

\* a tax word stands on the rest of the line after position e of s
TaxAfter(s, e) ==
    \E w \in e..Len(s) :
        /\ \A j \in e..(w - 1) : Ch(s, j) # "\n"
        /\ \E word \in {"CGST", "SGST", "IGST", "Tax"} : LitAt(s, w, word, IOnly)

\* the starts of the amounts the currency glyph introduces that have at least
\* four digits or commas and no tax word after them on their line
EligibleGlyph(s) ==
    { a \in 1..Len(s) :
        /\ AmountAt(s, a)
        /\ GlyphIntro(s, a)
        /\ RunEnd(s, a) - a >= 4
        /\ ~TaxAfter(s, RunEnd(s, a) + 3) }

\* the '.00' candidates of the text: labelled, or eligible and introduced by the glyph
Candidates(s) == { AmountFrom(s, x[2]) : x \in Labelled(s) } \cup { AmountFrom(s, a) : a \in EligibleGlyph(s) }

\* value is the amount the selection rule gives for s: the first of the labelled
\* amounts; without one, the greatest of the eligible ones, the first of the
\* greatest; without either, ""
Selected(s, value, labelled, eligible) ==
    IF labelled # {}
    THEN \E x \in labelled :
           /\ \A y \in labelled : x[1] <= y[1]
           /\ value = "₹" \o AmountFrom(s, x[2])
    ELSE IF eligible # {}
    THEN \E a \in eligible :
           /\ value = "₹" \o AmountFrom(s, a)
           /\ \A b \in eligible :
                \/ FloatOf(AmountFrom(s, a)) > FloatOf(AmountFrom(s, b))
                \/ FloatOf(AmountFrom(s, a)) = FloatOf(AmountFrom(s, b)) /\ a <= b
    ELSE value = ""

\* C4 as the claim states it: the value ends in '.00', and with several '.00'
\* candidates in the text (labelled ones and ones the glyph alone introduces)
\* it is the numerically greatest of them.
C4_GreatestOfAllCandidates ==
    (InExtractField("Total Amount") /\ Candidates(call.text) # {}) =>
        /\ EndsWith(ret, ".00")
        /\ \A c \in Candidates(call.text) : FloatOf(SubSeq(ret, 2, Len(ret))) >= FloatOf(c)

\* C4, amended: the value is "" or the glyph and an amount ending in '.00'; the
\* first labelled '.00' amount if the text has one; else the greatest (the first
\* of the greatest) of the amounts the glyph introduces that have four or more
\* digits or commas and no tax word after them on their line; else "".
C4_TotalAmountSelection ==
    InExtractField("Total Amount") =>
        /\ ret = "" \/ (Ch(ret, 1) = "₹" /\ EndsWith(ret, ".00"))
        /\ Selected(call.text, ret, Labelled(call.text), EligibleGlyph(call.text))

\* a text with a labelled amount and a greater amount after the glyph alone:
\* the labelled one is returned
C4_Witness ==
    /\ InExtractField("Total Amount")
    /\ Labelled(call.text) # {}
    /\ \E a \in EligibleGlyph(call.text) :
         FloatOf(AmountFrom(call.text, a)) > FloatOf(SubSeq(ret, 2, Len(ret)))

\* the call is a description extraction that has returned
DescriptionDone ==
    /\ cpc = "done"
    /\ \/ call.fn = "extract_description_from_table"
       \/ call.fn = "extract_field" /\ call.field_name = "Description"

\* longer than 20 characters and holding the marker, in whatever case
PassesTest(c) ==
    Len(c) > MinDescriptionLen /\ \E at \in 1..Len(c) : LitAt(c, at, "BLUEWUD", IOnly)

\* value is the first of the candidates, in the order of their patterns, that
\* passes the test, or "" when none does; candidates holds <<n, candidate n>>
FirstPassing(value, candidates) ==
    \/ /\ \A c \in candidates : ~PassesTest(c[2])
       /\ value = ""
    \/ \E c \in candidates :
         /\ \A d \in candidates : d[1] < c[1] => ~PassesTest(d[2])
         /\ PassesTest(c[2])
         /\ value = c[2]

\* C6 - description acceptance: the value returned is "" or a cleaned candidate of
\* more than 20 characters that still holds the marker; the patterns are tried
\* in order, one whose longest match fails the test is passed over, and the
\* first whose longest match passes gives the result.
C6_DescriptionAcceptance ==
    DescriptionDone =>
        /\ ret = "" \/ PassesTest(ret)
        /\ FirstPassing(ret, { <<n, Candidate(call.text, n)>> : n \in 1..Len(description_patterns) })

\* the first pattern's longest match failed the test and the second's passed
C6_Witness == DescriptionDone /\ log = <<"rejected", "accepted">> /\ ret # ""

\* C7 - address truncation: the address clean_address returns holds neither the
\* 'State/UT Code' marker nor the 'Place of' marker, in whatever letter case.
C7_AddressTruncation ==
    (cpc = "done" /\ call.fn = "clean_address") =>
        \A at \in 1..Len(ret) :
            ~LitAt(ret, at, "State/UT Code", IOnly) /\ ~LitAt(ret, at, "Place of", IOnly)

\* a code of the fallback shape: 'UP-143350511-' and digits, or 'KA-BLX1-' and
\* digits and dashes
FallbackShape(c) ==
    \/ Len(c) > 13 /\ SubSeq(c, 1, 13) = "UP-143350511-" /\ \A j \in 14..Len(c) : Ch(c, j) \in Digits
    \/ Len(c) > 8 /\ SubSeq(c, 1, 8) = "KA-BLX1-" /\ \A j \in 9..Len(c) : Ch(c, j) \in Digits \cup {"-"}

\* the codes of the fallback shape that stand in s as words of their own
FallbackCodes(s) ==
    { SubSeq(s, x[1], x[2] - 1) :
        x \in { y \in (1..Len(s)) \X (1..(Len(s) + 1)) :
                  /\ y[1] < y[2]
                  /\ (LitAt(s, y[1], "UP-", NoFlags) \/ LitAt(s, y[1], "KA-", NoFlags))
                  /\ AtWB(s, y[1]) /\ AtWB(s, y[2])
                  /\ FallbackShape(SubSeq(s, y[1], y[2] - 1)) } }

\* C8 - Invoice Details fallback ordering: when no primary rule yields a value,
\* extract_field returns a code of the fallback shape if the text holds one, and
\* "" if it holds none.
C8_FallbackOrdering ==
    (InExtractField("Invoice Details") /\ \A n \in 1..Len(log) : log[n] # "return") =>
        IF FallbackCodes(call.text) # {} THEN ret \in FallbackCodes(call.text) ELSE ret = ""

\* no primary rule yielded a value and the fallback returned the code of the text
C8_Witness ==
    /\ InExtractField("Invoice Details")
    /\ \A n \in 1..Len(log) : log[n] # "return"
    /\ ret \in FallbackCodes(call.text)

\* C10 - rule fault isolation: a rule whose evaluation raises counts as a
\* non-match of that rule alone; no exception leaves extract_field, the rules
\* after it are tried in order, then the fallback stage, and a string is returned.
C10_RuleFaultIsolation ==
    /\ cpc # "raised"
    /\ cpc = "rules" => Len(log) = k - 1
    /\ (cpc = "done" /\ call.fn = "extract_field" /\ call.field_name # "Description") =>
         /\ ret \in STRING
         /\ \A n \in 1..(Len(log) - 1) : log[n] \in {"next", "raise"}
         /\ \/ log[Len(log)] = "return"
            \/ /\ log[Len(log)] = "fallback"
               /\ Len(log) = Len(extraction_patterns(call.field_name)) + 1

\* a rule raised, the rules after it were tried, and the fallback stage returned a value
C10_Witness ==
    /\ cpc = "done"
    /\ ret # ""
    /\ \E n \in 1..Len(log) : log[n] = "raise" /\ n + 1 < Len(log)
    /\ log[Len(log)] = "fallback"

=============================================================================
